---- MODULE Spec2Model ----
(***************************************************************************)
(* Model of scripts/build-news.mjs: the news harvesting pipeline of the    *)
(* OSIAH site.  Three source tasks (YouTube, Bandcamp, Google News) run    *)
(* concurrently under Promise.allSettled; main() merges their values,      *)
(* deduplicates, sorts, truncates and writes data/news.json plus a debug   *)
(* artifact.                                                               *)
(*                                                                         *)
(* JavaScript strings are TLA+ strings; TLC evaluates Len, \o and SubSeq   *)
(* on them, so substring search, word boundaries, trimming and            *)
(* lexicographic comparison are computed character by character.          *)
(* JavaScript null is the empty set and a non-null string s is {s}.       *)
(***************************************************************************)
EXTENDS Integers, Sequences, FiniteSets, TLC

(***************************************************************************)
(* Bounds of the model.                                                    *)
(***************************************************************************)
\* largest feed (number of units) a source task is handed in one run,
\* apart from the long YouTube feed LongFeed
MaxUnits == 2
\* last value of the capture clock
MaxNow == 11

(***************************************************************************)
(* String primitives of the JavaScript runtime.                            *)
(***************************************************************************)
NULL == {}
Some(s) == {s}
Val(o) == CHOOSE s \in o : TRUE
\* JavaScript truthiness of a value that is null or a string
Truthy(o) == o # NULL /\ o # {""}
\* a || b on such values
OrElse(a, b) == IF Truthy(a) THEN a ELSE b

CharAt(s, i) == SubSeq(s, i, i)

UpperCase == <<"A","B","C","D","E","F","G","H","I","J","K","L","M",
               "N","O","P","Q","R","S","T","U","V","W","X","Y","Z">>
LowerCase == <<"a","b","c","d","e","f","g","h","i","j","k","l","m",
               "n","o","p","q","r","s","t","u","v","w","x","y","z">>
Digits == <<"0","1","2","3","4","5","6","7","8","9">>

Range(f) == { f[i] : i \in DOMAIN f }

LowerChar(c) ==
  IF c \in Range(UpperCase)
  THEN LowerCase[CHOOSE i \in 1..26 : UpperCase[i] = c]
  ELSE c

\* String.prototype.toLowerCase, by halves
toLowerCase[s \in STRING] ==
  IF Len(s) <= 1 THEN LowerChar(s)
  ELSE toLowerCase[SubSeq(s, 1, Len(s) \div 2)]
         \o toLowerCase[SubSeq(s, (Len(s) \div 2) + 1, Len(s))]

\* String.prototype.includes
includes(t, w) ==
  \E i \in 1..(Len(t) - Len(w) + 1) : SubSeq(t, i, i + Len(w) - 1) = w

\* String.prototype.indexOf, 1-based; 0 when absent (JavaScript: -1)
indexOf(t, w) ==
  IF includes(t, w)
  THEN CHOOSE i \in 1..(Len(t) - Len(w) + 1) :
         /\ SubSeq(t, i, i + Len(w) - 1) = w
         /\ \A j \in 1..(i - 1) : SubSeq(t, j, j + Len(w) - 1) # w
  ELSE 0

\* String.prototype.lastIndexOf, as a JavaScript 0-based index; -1 when absent
lastIndexOf(t, w) ==
  IF includes(t, w)
  THEN (CHOOSE i \in 1..(Len(t) - Len(w) + 1) :
         /\ SubSeq(t, i, i + Len(w) - 1) = w
         /\ \A j \in (i + 1)..(Len(t) - Len(w) + 1) :
              SubSeq(t, j, j + Len(w) - 1) # w) - 1
  ELSE -1

endsWith(t, w) ==
  Len(t) >= Len(w) /\ SubSeq(t, Len(t) - Len(w) + 1, Len(t)) = w

startsWith(t, w) ==
  Len(t) >= Len(w) /\ SubSeq(t, 1, Len(w)) = w

\* String.prototype.slice(a, b) with 0-based, in-range arguments
slice(t, a, b) == SubSeq(t, a + 1, b)

IsSpace(c) == c = " "

\* String.prototype.trim
trim(s) ==
  IF \A i \in 1..Len(s) : IsSpace(CharAt(s, i))
  THEN ""
  ELSE LET first == CHOOSE i \in 1..Len(s) :
                      /\ ~IsSpace(CharAt(s, i))
                      /\ \A j \in 1..(i - 1) : IsSpace(CharAt(s, j))
           last == CHOOSE i \in 1..Len(s) :
                      /\ ~IsSpace(CharAt(s, i))
                      /\ \A j \in (i + 1)..Len(s) : IsSpace(CharAt(s, j))
       IN SubSeq(s, first, last)

\* the regular expression class \w
IsWordChar(c) ==
  c \in Range(UpperCase) \cup Range(LowerCase) \cup Range(Digits) \cup {"_"}

\* /\bW\b/i.test(t) for a word W of lower-case letters
testWord(t, w) ==
  \E i \in 1..(Len(t) - Len(w) + 1) :
    /\ toLowerCase[SubSeq(t, i, i + Len(w) - 1)] = w
    /\ (i = 1 \/ ~IsWordChar(CharAt(t, i - 1)))
    /\ (i + Len(w) - 1 = Len(t) \/ ~IsWordChar(CharAt(t, i + Len(w))))

\* a > b on strings: lexicographic by code unit.  The ranking below orders
\* the characters that occur in date strings.
CodeUnit(c) ==
  IF c \in Range(Digits) THEN 47 + (CHOOSE i \in 1..10 : Digits[i] = c)
  ELSE IF c \in Range(UpperCase)
       THEN 64 + (CHOOSE i \in 1..26 : UpperCase[i] = c)
  ELSE IF c \in Range(LowerCase)
       THEN 96 + (CHOOSE i \in 1..26 : LowerCase[i] = c)
  ELSE 32

RECURSIVE StrGT(_, _)
StrGT(a, b) ==
  IF a = "" THEN FALSE
  ELSE IF b = "" THEN TRUE
  ELSE IF CharAt(a, 1) = CharAt(b, 1) THEN StrGT(Tail(a), Tail(b))
  ELSE CodeUnit(CharAt(a, 1)) > CodeUnit(CharAt(b, 1))

(***************************************************************************)
(* UTIL: dates.  The timeline of the model is the instants 0..99.  A date  *)
(* text parses when it is one or two decimal digits ("7" and "07" both     *)
(* denote instant 7, as RFC 822 and ISO 8601 texts denote the same         *)
(* instant); toISOString renders an instant at fixed width, which is what  *)
(* makes string comparison of two ISO dates agree with time order.         *)
(***************************************************************************)
NaN == -1

IsDigit(c) == c \in Range(Digits)
DigitVal(c) == (CHOOSE i \in 1..10 : Digits[i] = c) - 1

\* new Date(text).getTime()
DateParse(d) ==
  IF Len(d) = 1 /\ IsDigit(d) THEN DigitVal(d)
  ELSE IF Len(d) = 2 /\ IsDigit(CharAt(d, 1)) /\ IsDigit(CharAt(d, 2))
       THEN 10 * DigitVal(CharAt(d, 1)) + DigitVal(CharAt(d, 2))
  ELSE NaN

\* Date.prototype.toISOString of a valid instant
toISOString(n) == Digits[(n \div 10) + 1] \o Digits[(n % 10) + 1]

\* toISO(d): toISOString throws RangeError on an invalid date and the catch
\* substitutes the capture time clock
toISO(d, clock) ==
  IF DateParse(d) # NaN THEN toISOString(DateParse(d)) ELSE toISOString(clock)

(***************************************************************************)
(* UTIL: URLs.                                                             *)
(***************************************************************************)
\* position of the first character of t at or after the 1-based index from
\* that is one of the characters in stops; Len(t) + 1 when there is none
FirstOf(t, from, stops) ==
  IF \E i \in from..Len(t) : CharAt(t, i) \in stops
  THEN CHOOSE i \in from..Len(t) :
         /\ CharAt(t, i) \in stops
         /\ \A j \in from..(i - 1) : CharAt(t, j) \notin stops
  ELSE Len(t) + 1

\* new URL(u) succeeds: a non-empty alphabetic scheme, "://", a non-empty host
ValidURL(u) ==
  LET k == indexOf(u, "://") IN
    /\ k >= 2
    /\ \A i \in 1..(k - 1) :
         CharAt(u, i) \in Range(UpperCase) \cup Range(LowerCase)
    /\ FirstOf(u, k + 3, {"/", "?", "#"}) > k + 3

\* new URL(u).hostname, for a u that parses
hostname(u) ==
  LET k == indexOf(u, "://")
  IN toLowerCase[SubSeq(u, k + 3, FirstOf(u, k + 3, {"/", "?", "#"}) - 1)]

\* the query string of u without its "?", "" when there is none
QueryOf(u) ==
  LET q == FirstOf(u, 1, {"?", "#"}) IN
    IF q <= Len(u) /\ CharAt(u, q) = "?"
    THEN SubSeq(u, q + 1, FirstOf(u, q + 1, {"#"}) - 1)
    ELSE ""

RECURSIVE Split(_, _)
Split(s, sep) ==
  LET k == indexOf(s, sep) IN
    IF k = 0 THEN <<s>>
    ELSE <<SubSeq(s, 1, k - 1)>> \o Split(SubSeq(s, k + 1, Len(s)), sep)

\* the percent escapes the model decodes
Escapes == {"%3A", "%2F", "%3F", "%3D", "%26", "%25", "%20"}
Unescape(e) ==
  CASE e = "%3A" -> ":" [] e = "%2F" -> "/" [] e = "%3F" -> "?"
    [] e = "%3D" -> "=" [] e = "%26" -> "&" [] e = "%25" -> "%"
    [] e = "%20" -> " "

\* percent-decoding that leaves a malformed escape as it is (URLSearchParams)
RECURSIVE PercentDecode(_)
PercentDecode(s) ==
  LET IsEscape(i) == i + 2 <= Len(s) /\ SubSeq(s, i, i + 2) \in Escapes IN
    IF \E i \in 1..Len(s) : IsEscape(i)
    THEN LET i == CHOOSE i \in 1..Len(s) :
                    IsEscape(i) /\ \A j \in 1..(i - 1) : ~IsEscape(j)
         IN SubSeq(s, 1, i - 1) \o Unescape(SubSeq(s, i, i + 2))
              \o PercentDecode(SubSeq(s, i + 3, Len(s)))
    ELSE s

\* decodeURIComponent throws URIError on s
Malformed(s) ==
  \E i \in 1..Len(s) :
    /\ CharAt(s, i) = "%"
    /\ (i + 2 > Len(s) \/ SubSeq(s, i, i + 2) \notin Escapes)

\* url.searchParams.get(name): the first value, decoded; NULL when absent
searchParamsGet(u, name) ==
  LET ps == Split(QueryOf(u), "&")
      hit(p) == startsWith(p, name \o "=")
  IN IF \E i \in 1..Len(ps) : hit(ps[i])
     THEN LET i == CHOOSE i \in 1..Len(ps) :
                     hit(ps[i]) /\ \A j \in 1..(i - 1) : ~hit(ps[j])
          IN Some(PercentDecode(SubSeq(ps[i], Len(name) + 2, Len(ps[i]))))
     ELSE NULL

\* extractRealUrl(u): every throw inside (new URL, decodeURIComponent) is
\* caught and u returned
extractRealUrl(u) ==
  IF ValidURL(u) /\ hostname(u) = "news.google.com"
  THEN LET real == searchParamsGet(u, "url") IN
         IF Truthy(real) /\ ~Malformed(Val(real))
         THEN PercentDecode(Val(real))
         ELSE u
  ELSE u

\* host.replace(/^www\./, "")
StripWww(host) ==
  IF startsWith(host, "www.") THEN SubSeq(host, 5, Len(host)) ELSE host

niceHost(u) ==
  IF ValidURL(u)
  THEN LET host == StripWww(hostname(u)) IN
         IF host = "youtu.be" \/ endsWith(host, "youtube.com") THEN "YouTube"
         ELSE IF endsWith(host, "bandcamp.com") THEN "Bandcamp"
         ELSE host
  ELSE "News"

\* cleanTitleAndPublisher(rawTitle): <<title, publisher>>
cleanTitleAndPublisher(rawTitle) ==
  IF rawTitle = "" THEN [title |-> "", publisher |-> NULL]
  ELSE LET idx == lastIndexOf(rawTitle, " - ") IN
         IF idx > 12 /\ idx > Len(rawTitle) - 60
         THEN [title |-> trim(slice(rawTitle, 0, idx)),
               publisher |-> Some(trim(slice(rawTitle, idx + 3, Len(rawTitle))))]
         ELSE [title |-> trim(rawTitle), publisher |-> NULL]

(***************************************************************************)
(* FILTER TUNING and isRelevant.                                           *)
(***************************************************************************)
CONTEXT_TERMS ==
  {"deathcore", "metal", "band", "album", "single", "track", "song", "video",
   "tour", "gig", "live", "stream", "review", "interview", "unique leader",
   "slam worldwide", "merch", "vinyl", "cd", "ep", "lp"}

BLOCK_TERMS ==
  {"josiah", "duggar", "lauren duggar", "pastor", "church", "football",
   "basketball", "soccer", "rugby", "ufc", "mma", "nascar", "arrest",
   "murder", "shooting", "lawsuit", "politics", "government", "ghana",
   "nigeria", "uganda", "kenya", "pregnant", "baby"}

TRUSTED_HOSTS ==
  {"youtube.com", "youtu.be", "bandcamp.com", "uniqueleader.com",
   "store.uniqueleader.com", "rowstore.uniqueleader.com",
   "metalinjection.net", "metalsucks.net", "distortedsoundmag.com",
   "lambgoat.com", "theprp.com", "kerrang.com", "nme.com",
   "angrymetalguy.com", "deadpress.co.uk", "newtranscendence.com",
   "noecho.net", "idioteq.com", "rocksound.tv"}

\* t of isRelevant: (title + " " + summary).toLowerCase()
RelevanceText(title, summary) == toLowerCase[title \o " " \o summary]

TrustedHost(url) == ValidURL(url) /\ StripWww(hostname(url)) \in TRUSTED_HOSTS

\* isRelevant with the context-term test ahead of the block-term test
isRelevantContextFirst(title, summary, url) ==
  LET t == RelevanceText(title, summary) IN
    IF ~testWord(t, "osiah") THEN FALSE
    ELSE IF testWord(t, "josiah") THEN FALSE
    ELSE IF \E w \in CONTEXT_TERMS : includes(t, w) THEN TRUE
    ELSE IF \E w \in BLOCK_TERMS : includes(t, w) THEN FALSE
    ELSE TrustedHost(url)

isRelevant(title, summary, url) ==
  LET t == RelevanceText(title, summary) IN
    IF ~testWord(t, "osiah") THEN FALSE
    ELSE IF testWord(t, "josiah") THEN FALSE
    ELSE IF \E w \in BLOCK_TERMS : includes(t, w) THEN FALSE
    ELSE IF \E w \in CONTEXT_TERMS : includes(t, w) THEN TRUE
    ELSE TrustedHost(url)


(***************************************************************************)
(* TINY XML PARSER.  A feed text is the sequence of its unit blocks.  A    *)
(* block is a function from the places the patterns of pickTag and         *)
(* pickAttr look at to what their capture group finds there: NULL when the *)
(* pattern does not match, else the raw captured text.  "kind" tells which *)
(* of ENTRY_BLOCK and ITEM_BLOCK matches the block.                        *)
(***************************************************************************)
Places == {"title", "link", "link@href", "published", "updated", "pubDate",
           "description", "content", "media:thumbnail@url", "enclosure@url"}

NoBlock == [p \in Places \cup {"kind"} |-> NULL]

\* xml.match(ENTRY_BLOCK) and xml.match(ITEM_BLOCK); <<>> stands for the
\* null that match returns when nothing matches
IsEntry(b) == b["kind"] = Some("entry")
IsItem(b) == b["kind"] = Some("item")
matchEntries(xml) == SelectSeq(xml, IsEntry)
matchItems(xml) == SelectSeq(xml, IsItem)

\* s.replace(/<!\[CDATA\[|\]\]>/g, "")
RECURSIVE RemoveCDATA(_)
RemoveCDATA(s) ==
  LET Opens(i) == startsWith(SubSeq(s, i, Len(s)), "<![CDATA[")
      Closes(i) == startsWith(SubSeq(s, i, Len(s)), "]]>")
  IN IF \E i \in 1..Len(s) : Opens(i) \/ Closes(i)
     THEN LET i == CHOOSE i \in 1..Len(s) :
                     /\ Opens(i) \/ Closes(i)
                     /\ \A j \in 1..(i - 1) : ~(Opens(j) \/ Closes(j))
          IN SubSeq(s, 1, i - 1)
               \o RemoveCDATA(SubSeq(s, i + (IF Opens(i) THEN 9 ELSE 3), Len(s)))
     ELSE s

pickTag(b, tag) ==
  IF b[tag] = NULL THEN NULL ELSE Some(trim(RemoveCDATA(Val(b[tag]))))

\* the value pattern "([^"]+)" does not match an empty attribute value
pickAttr(b, tag, attr) ==
  LET m == b[tag \o "@" \o attr] IN IF Truthy(m) THEN m ELSE NULL

\* s.replace(/<[^>]+>/g, "")
RECURSIVE RemoveTags(_)
RemoveTags(s) ==
  LET \* the pattern matches at i: "<", one character or more, none of them
      \* ">", then ">"
      close(i) == FirstOf(s, i + 1, {">"})
      Matches(i) == CharAt(s, i) = "<" /\ close(i) <= Len(s) /\ close(i) >= i + 2
  IN IF \E i \in 1..Len(s) : Matches(i)
     THEN LET i == CHOOSE i \in 1..Len(s) :
                     Matches(i) /\ \A j \in 1..(i - 1) : ~Matches(j)
          IN SubSeq(s, 1, i - 1) \o RemoveTags(SubSeq(s, close(i) + 1, Len(s)))
     ELSE s

\* stripTags(s) on a null-or-string value: s ? ... : s
stripTags(o) == IF Truthy(o) THEN Some(trim(RemoveTags(Val(o)))) ELSE o

\* (content.match(/<img[^>]+src="([^"]+)"/i) || [])[1]; NULL for undefined
imgFromContent(content) ==
  LET lc == toLowerCase[content]
      \* a match starts at i with its src=" at j and its closing quote at k
      Match(i, j, k) ==
        /\ startsWith(SubSeq(lc, i, Len(lc)), "<img")
        /\ j >= i + 5
        /\ startsWith(SubSeq(lc, j, Len(lc)), "src=\"")
        /\ \A x \in (i + 4)..(j - 1) : CharAt(lc, x) # ">"
        /\ k >= j + 6
        /\ CharAt(lc, k) = "\""
        /\ \A x \in (j + 5)..(k - 1) : CharAt(lc, x) # "\""
      Pos == 1..Len(lc)
      Starts == { i \in Pos : startsWith(SubSeq(lc, i, Len(lc)), "<img") }
      Srcs == { j \in Pos : startsWith(SubSeq(lc, j, Len(lc)), "src=\"") }
      Quotes == { k \in Pos : CharAt(lc, k) = "\"" }
      Matches == { m \in Starts \X Srcs \X Quotes : Match(m[1], m[2], m[3]) }
  IN IF Matches = {} THEN NULL
     ELSE LET i == CHOOSE i \in Pos :
                     /\ \E m \in Matches : m[1] = i
                     /\ \A m \in Matches : m[1] >= i
              j == CHOOSE j \in Pos :
                     /\ \E m \in Matches : m[1] = i /\ m[2] = j
                     /\ \A m \in Matches : m[1] = i => m[2] <= j
              k == CHOOSE k \in Pos : <<i, j, k>> \in Matches
          IN Some(SubSeq(content, j + 5, k - 1))


(***************************************************************************)
(* fetchText.  A response is what fetch hands back: a transport error (the *)
(* fetch promise rejects) or a status with a body.                         *)
(***************************************************************************)
NetworkError == [error |-> TRUE, ok |-> FALSE, body |-> <<>>]
Response(ok, body) == [error |-> FALSE, ok |-> ok, body |-> body]

Throw == [threw |-> TRUE, text |-> <<>>]
Return(text) == [threw |-> FALSE, text |-> text]

\* fetchText without the res.ok test
fetchTextAnyStatus(res) ==
  IF res.error THEN Throw ELSE Return(res.body)

fetchText(res) ==
  IF res.error THEN Throw
  ELSE IF ~res.ok THEN Throw
  ELSE Return(res.body)

\* the settled state of an async function's promise
Pending == [status |-> "pending", value |-> <<>>]
Rejected == [status |-> "rejected", value |-> <<>>]
Fulfilled(v) == [status |-> "fulfilled", value |-> v]

(***************************************************************************)
(* PARSERS.  clock is what new Date() reads while the parser runs.         *)
(***************************************************************************)
\* the date a source gave, before the capture-time default: NULL or a text
YouTubeDate(b) == OrElse(pickTag(b, "published"), pickTag(b, "updated"))
BandcampDate(b) == OrElse(pickTag(b, "updated"), pickTag(b, "pubDate"))
GoogleNewsDate(b) == pickTag(b, "pubDate")

\* d || new Date().toISOString()
DateOrNow(d, clock) == Val(OrElse(d, Some(toISOString(clock))))

\* the link of an Atom or RSS block:
\* pickAttr(b, "link", "href") || pickTag(b, "link") || ""
LinkOf(b) ==
  Val(OrElse(OrElse(pickAttr(b, "link", "href"), pickTag(b, "link")), Some("")))

\* stripTags(pickTag(b, tag)) || ""
TextOf(b, tag) == Val(OrElse(stripTags(pickTag(b, tag)), Some("")))

YouTubeItem(b, clock) ==
  [title |-> TextOf(b, "title"),
   url |-> LinkOf(b),
   image |-> OrElse(pickAttr(b, "media:thumbnail", "url"), NULL),
   source |-> "YouTube",
   date |-> toISO(DateOrNow(YouTubeDate(b), clock), clock)]

BandcampItem(b, clock) ==
  LET enclosure == pickAttr(b, "enclosure", "url")
      thumb == pickAttr(b, "media:thumbnail", "url")
      content == Val(OrElse(OrElse(pickTag(b, "content"),
                                   pickTag(b, "description")), Some("")))
  IN [title |-> TextOf(b, "title"),
      url |-> LinkOf(b),
      image |-> OrElse(OrElse(OrElse(enclosure, thumb),
                              imgFromContent(content)), NULL),
      source |-> "Bandcamp",
      date |-> toISO(DateOrNow(BandcampDate(b), clock), clock)]

GoogleNewsCard(b, clock) ==
  LET clean == cleanTitleAndPublisher(TextOf(b, "title"))
      link == extractRealUrl(TextOf(b, "link"))
  IN [title |-> clean.title,
      url |-> link,
      image |-> NULL,
      source |-> Val(OrElse(clean.publisher, Some(niceHost(link)))),
      date |-> toISO(DateOrNow(GoogleNewsDate(b), clock), clock),
      _summary |-> TextOf(b, "description")]

\* the blocks getBandcamp parses:
\* xml.match(ENTRY_BLOCK) || xml.match(ITEM_BLOCK) || []
BandcampBlocks(xml) ==
  IF matchEntries(xml) # <<>> THEN matchEntries(xml) ELSE matchItems(xml)

RelevantCard(c) == isRelevant(c.title, c._summary, c.url)

\* the value each async parser resolves with, or its rejection
getYouTube(res, clock) ==
  LET xml == fetchText(res) IN
    IF xml.threw THEN Rejected
    ELSE LET blocks == matchEntries(xml.text) IN
           Fulfilled([i \in 1..Len(blocks) |-> YouTubeItem(blocks[i], clock)])

getBandcamp(res, clock) ==
  LET xml == fetchText(res) IN
    IF xml.threw THEN Rejected
    ELSE LET blocks == BandcampBlocks(xml.text) IN
           Fulfilled([i \in 1..Len(blocks) |-> BandcampItem(blocks[i], clock)])

getGoogleNews(res, clock) ==
  LET xml == fetchText(res) IN
    IF xml.threw THEN Rejected
    ELSE LET blocks == matchItems(xml.text)
             cards == [i \in 1..Len(blocks) |-> GoogleNewsCard(blocks[i], clock)]
         IN Fulfilled(SelectSeq(cards, RelevantCard))

\* a source date that is absent or that new Date cannot parse
UnknownDate(d) == ~Truthy(d) \/ DateParse(Val(d)) = NaN

(***************************************************************************)
(* MERGE.                                                                  *)
(***************************************************************************)
KeepLimit == 40

\* the key of dedupeByUrl: it.url || `${it.source}:${it.title}`
Key(it) == IF it.url # "" THEN it.url ELSE it.source \o ":" \o it.title

RECURSIVE DedupeLoop(_, _, _)
DedupeLoop(arr, seen, out) ==
  IF arr = <<>> THEN out
  ELSE IF Key(Head(arr)) \in seen THEN DedupeLoop(Tail(arr), seen, out)
  ELSE DedupeLoop(Tail(arr), seen \cup {Key(Head(arr))}, Append(out, Head(arr)))

\* dedupeByUrl that never adds to seen
dedupeNothing(arr) == arr

\* dedupeByUrl that lets the last candidate of a key win
dedupeLastWins(arr) ==
  LET rev == [i \in 1..Len(arr) |-> arr[Len(arr) + 1 - i]]
      kept == DedupeLoop(rev, {}, <<>>)
  IN [i \in 1..Len(kept) |-> kept[Len(kept) + 1 - i]]

dedupeByUrl(arr) == DedupeLoop(arr, {}, <<>>)

\* the comparator of main: (a, b) => (a.date > b.date ? -1 : 1)
\* the comparator with its test turned round
byDateAscending(a, b) == IF StrGT(b.date, a.date) THEN -1 ELSE 1

byDate(a, b) == IF StrGT(a.date, b.date) THEN -1 ELSE 1

(***************************************************************************)
(* Array.prototype.sort with the comparator byDate, as the Node.js runtime *)
(* computes it for arrays shorter than 64 elements: the leading run is found (and reversed when   *)
(* strictly descending), then the rest is placed by binary insertion.      *)
(* Indices are 0-based as in the runtime; a[k + 1] is its element k.       *)
(***************************************************************************)
Reverse(s) == [i \in 1..Len(s) |-> s[Len(s) + 1 - i]]

RECURSIVE RunLength(_, _, _)
RunLength(a, idx, descending) ==
  IF idx >= Len(a) THEN idx
  ELSE LET order == byDate(a[idx + 1], a[idx]) IN
         IF descending /\ order >= 0 THEN idx
         ELSE IF ~descending /\ order < 0 THEN idx
         ELSE RunLength(a, idx + 1, descending)

RECURSIVE BinarySearch(_, _, _, _)
BinarySearch(a, pivot, left, right) ==
  IF left >= right THEN left
  ELSE LET mid == left + ((right - left) \div 2) IN
         IF byDate(pivot, a[mid + 1]) < 0
         THEN BinarySearch(a, pivot, left, mid)
         ELSE BinarySearch(a, pivot, mid + 1, right)

RECURSIVE BinaryInsertionSort(_, _)
BinaryInsertionSort(a, start) ==
  IF start >= Len(a) THEN a
  ELSE LET pivot == a[start + 1]
           left == BinarySearch(a, pivot, 0, start)
           moved == SubSeq(a, 1, left) \o <<pivot>> \o SubSeq(a, left + 1, start)
                      \o SubSeq(a, start + 2, Len(a))
       IN BinaryInsertionSort(moved, start + 1)

\* merged.sort(byDate)
sort(a) ==
  IF Len(a) < 2 THEN a
  ELSE LET descending == byDate(a[2], a[1]) < 0
           run == RunLength(a, 2, descending)
           made == IF descending
                   THEN Reverse(SubSeq(a, 1, run)) \o SubSeq(a, run + 1, Len(a))
                   ELSE a
       IN BinaryInsertionSort(made, run)

\* arr.slice(0, n)
sliceTo(arr, n) == SubSeq(arr, 1, IF Len(arr) < n THEN Len(arr) ELSE n)

\* dedupeByUrl(merged).sort(...).slice(0, 40)
Rank(mergeInput) == sliceTo(sort(dedupeByUrl(mergeInput)), KeepLimit)

(***************************************************************************)
(* The feeds the sources can answer with.                                  *)
(***************************************************************************)
Block(kind, fields) ==
  [p \in Places \cup {"kind"} |->
     IF p = "kind" THEN Some(kind)
     ELSE IF p \in DOMAIN fields THEN Some(fields[p]) ELSE NULL]

\* entry k of the channel feed: a video published at instant k
VideoEntry(k) ==
  Block("entry",
        [title |-> "OSIAH video " \o toISOString(k),
         published |-> toISOString(k)]
          @@ ("link@href" :> "https://www.youtube.com/watch?v=" \o toISOString(k))
          @@ ("media:thumbnail@url" :> "https://i.ytimg.com/vi/" \o toISOString(k)))

\* an entry that carries no title, no link and no date
BareEntry == Block("entry", [content |-> "<p>OSIAH</p>"])

YouTubeBlocks == {VideoEntry(1), BareEntry}

\* a channel feed with one entry more than main keeps
LongFeed == [k \in 1..(KeepLimit + 1) |-> VideoEntry(k)]

BandcampBlockSet ==
  { Block("item",
          [title |-> "<![CDATA[ Loss ]]>",
           link |-> "https://osiahuk.bandcamp.com/album/loss",
           pubDate |-> "1",
           description |-> "<p><img alt=\"\" src=\"https://f4.bcbits.com/a1.jpg\"></p>"]),
    \* an Atom entry that links to the first video and has no date
    Block("entry",
          [title |-> "Loss (video)"]
            @@ ("link@href" :> "https://www.youtube.com/watch?v=01")) }

GoogleNewsBlocks ==
  { \* accepted on a context term; publisher suffix, redirect link
    Block("item",
          [title |-> "OSIAH announce new album - Metal Injection",
           link |-> "https://news.google.com/rss/articles/x?url=https%3A%2F%2Fmetalinjection.net%2Fosiah",
           pubDate |-> "10",
           description |-> "<a href=\"x\">OSIAH</a> album"]),
    \* the homograph
    Block("item",
          [title |-> "Josiah wins local football award",
           link |-> "https://example.com/josiah",
           pubDate |-> "08"]),
    \* a context term and a block term, on a trusted host
    Block("item",
          [title |-> "OSIAH metal band in church lawsuit",
           link |-> "https://www.nme.com/osiah",
           pubDate |-> "09"]),
    \* no context term, trusted host, a date that does not parse
    Block("item",
          [title |-> "OSIAH",
           link |-> "https://www.kerrang.com/osiah",
           pubDate |-> "soon"]),
    \* no context term, host not trusted
    Block("item",
          [title |-> "OSIAH",
           link |-> "https://example.com/osiah",
           pubDate |-> "07"]),
    \* a news item about the first video, linking to it
    Block("item",
          [title |-> "Osiah share Loss video",
           link |-> "https://www.youtube.com/watch?v=01",
           pubDate |-> "02"]) }

\* every feed of at most MaxUnits blocks over a set of blocks
FeedsOver(blocks) ==
  UNION { [1..n -> blocks] : n \in 0..MaxUnits }

Feeds(src) ==
  CASE src = 1 -> FeedsOver(YouTubeBlocks) \cup {LongFeed}
    [] src = 2 -> FeedsOver(BandcampBlockSet)
    [] src = 3 -> FeedsOver(GoogleNewsBlocks)

\* what fetch can hand to the task of source src: a transport error, an
\* error status with some body, or a success with a feed
Responses(src) ==
  {NetworkError}
    \cup { Response(FALSE, f) : f \in { g \in Feeds(src) : Len(g) = 1 } }
    \cup { Response(TRUE, f) : f \in Feeds(src) }

(***************************************************************************)
(* main().  The three source tasks are started together and settle in any  *)
(* order; Promise.allSettled resolves once all have settled.               *)
(***************************************************************************)
YouTube == 1
Bandcamp == 2
GoogleNews == 3
Sources == {YouTube, Bandcamp, GoogleNews}

\* the readings new Date() can give during a run
Clock == (MaxNow - 1)..MaxNow

RunParser(src, res, clock) ==
  CASE src = YouTube -> getYouTube(res, clock)
    [] src = Bandcamp -> getBandcamp(res, clock)
    [] src = GoogleNews -> getGoogleNews(res, clock)

\* the blocks a parser turns into items, and the date each block gave
ParsedBlocks(src, body) ==
  CASE src = YouTube -> matchEntries(body)
    [] src = Bandcamp -> BandcampBlocks(body)
    [] src = GoogleNews -> matchItems(body)

SourceDate(src, b) ==
  CASE src = YouTube -> YouTubeDate(b)
    [] src = Bandcamp -> BandcampDate(b)
    [] src = GoogleNews -> GoogleNewsDate(b)

ParseBlock(src, b, clock) ==
  CASE src = YouTube -> YouTubeItem(b, clock)
    [] src = Bandcamp -> BandcampItem(b, clock)
    [] src = GoogleNews -> GoogleNewsCard(b, clock)

\* the items of the value of a task that got their date from the capture
\* clock because the source gave none, or one that does not parse
DefaultedItems(src, res, clock) ==
  LET settled == RunParser(src, res, clock) IN
    IF settled.status # "fulfilled" THEN {}
    ELSE { ParseBlock(src, b, clock) :
             b \in { x \in Range(ParsedBlocks(src, res.body)) :
                       UnknownDate(SourceDate(src, x)) } }
           \cap Range(settled.value)

\* the parsers tabulated over the responses and clock readings of the model
Inputs ==
  UNION { { <<src, res, clock>> : res \in Responses(src), clock \in Clock } :
          src \in Sources }
Outcome ==
  [in \in Inputs |->
     [settled |-> RunParser(in[1], in[2], in[3]),
      defaulted |-> DefaultedItems(in[1], in[2], in[3])]]

\* a collector that files each outcome in the next free slot, in the order
\* the tasks settle
CollectByArrival(results, src, outcome) ==
  [results EXCEPT
     ![Cardinality({ s \in DOMAIN results : results[s].status # "pending" }) + 1]
       = outcome]

\* Promise.allSettled keeps each outcome at the position of its promise
Collect(results, src, outcome) == [results EXCEPT ![src] = outcome]

\* yt.status === "fulfilled" ? yt.value : []
ValueOrEmpty(result) ==
  IF result.status = "fulfilled" THEN result.value ELSE <<>>

OUTPUT == "data/news.json"
DEBUG == "news-debug.json"

\* main going on to the debug write whether or not the output write threw
AfterOutputWriteUnchecked(ok) == "write_debug"

\* where main continues after await writeJson(OUTPUT, merged)
AfterOutputWrite(ok) == IF ok THEN "write_debug" ELSE "catch"

\* the debug write without its own try
AfterDebugWriteUncaught(ok) == IF ok THEN "done" ELSE "catch"

\* the debug write sits in its own try with an empty catch
AfterDebugWrite(ok) == "done"

VARIABLES
  now,              \* the latest reading of the capture clock
  fetched,          \* fetched[src]: how the fetch of source src ended
  promise,          \* promise[src]: the state of the task of source src
  results,          \* the array Promise.allSettled fills
  pc,               \* where main() is
  youTubeItems, bandcampItems, googleNewsItems,   \* locals of main
  mergeInput,       \* merged as line 313 builds it
  merged,           \* merged after dedupe, sort and slice
  outputFile,       \* data/news.json: {} when absent, else {the array written}
  debugFile,        \* news-debug.json, likewise
  exitCode,         \* process.exitCode
  writes,           \* the writeJson calls made so far and how each ended
  defaulted         \* the items so far whose date is the capture-time default

vars == <<now, fetched, promise, results, pc, youTubeItems, bandcampItems,
          googleNewsItems, mergeInput, merged, outputFile, debugFile,
          exitCode, writes, defaulted>>

mainVars == <<pc, youTubeItems, bandcampItems, googleNewsItems, mergeInput,
              merged, outputFile, debugFile, exitCode, writes>>

Init ==
  /\ now = MaxNow - 1
  /\ fetched = [src \in Sources |-> "pending"]
  /\ promise = [src \in Sources |-> Pending]
  /\ results = [src \in Sources |-> Pending]
  /\ pc = "await_sources"
  /\ youTubeItems = <<>>
  /\ bandcampItems = <<>>
  /\ googleNewsItems = <<>>
  /\ mergeInput = <<>>
  /\ merged = <<>>
  /\ outputFile = {}
  /\ debugFile = {}
  /\ exitCode = 0
  /\ writes = <<>>
  /\ defaulted = {}

\* how a fetch ended: the promise of fetch rejected, or the status it gave
FetchEnd(res) ==
  IF res.error THEN "network_error" ELSE IF res.ok THEN "ok" ELSE "http_error"

\* the task of source src receives the response res, parses it at clock
\* reading t and settles
Settle(src, res, t) ==
  \E out \in {Outcome[<<src, res, t>>]} :
    /\ now' = t
    /\ fetched' = [fetched EXCEPT ![src] = FetchEnd(res)]
    /\ promise' = [promise EXCEPT ![src] = out.settled]
    /\ results' = Collect(results, src, out.settled)
    /\ defaulted' = defaulted \cup out.defaulted

GetYouTube ==
  /\ promise[YouTube].status = "pending"
  /\ \E res \in Responses(YouTube), t \in now..MaxNow : Settle(YouTube, res, t)
  /\ UNCHANGED mainVars

GetBandcamp ==
  /\ promise[Bandcamp].status = "pending"
  /\ \E res \in Responses(Bandcamp), t \in now..MaxNow : Settle(Bandcamp, res, t)
  /\ UNCHANGED mainVars

GetGoogleNews ==
  /\ promise[GoogleNews].status = "pending"
  /\ \E res \in Responses(GoogleNews), t \in now..MaxNow :
       Settle(GoogleNews, res, t)
  /\ UNCHANGED mainVars

\* lines 299-319: allSettled resolves, main merges and calls writeJson(OUTPUT)
MainMerge ==
  /\ pc = "await_sources"
  /\ \A src \in Sources : promise[src].status # "pending"
  /\ youTubeItems' = ValueOrEmpty(results[YouTube])
  /\ bandcampItems' = ValueOrEmpty(results[Bandcamp])
  /\ googleNewsItems' = ValueOrEmpty(results[GoogleNews])
  /\ mergeInput' = youTubeItems' \o bandcampItems' \o googleNewsItems'
  /\ merged' = Rank(mergeInput')
  /\ pc' = "write_output"
  /\ UNCHANGED <<now, fetched, promise, results, outputFile, debugFile, exitCode,
                 writes, defaulted>>

\* writeJson(path, data): mkdir and writeFile succeed and the file holds
\* JSON.stringify(data), or one of them rejects and the file is as before.
\* A file is represented by the value its JSON text denotes.
writeJson(file, data, ok) == IF ok THEN {data} ELSE file

\* line 319
WriteOutput ==
  /\ pc = "write_output"
  /\ \E ok \in BOOLEAN :
       /\ outputFile' = writeJson(outputFile, merged, ok)
       /\ writes' = Append(writes, [path |-> OUTPUT, ok |-> ok])
       /\ pc' = AfterOutputWrite(ok)
  /\ UNCHANGED <<now, fetched, promise, results, youTubeItems, bandcampItems,
                 googleNewsItems, mergeInput, merged, debugFile, exitCode,
                 defaulted>>

\* lines 320-329
WriteDebug ==
  /\ pc = "write_debug"
  /\ \E ok \in BOOLEAN :
       /\ debugFile' = writeJson(debugFile,
                                 [youTubeItems |-> youTubeItems,
                                  bandcampItems |-> bandcampItems,
                                  googleNewsItems |-> googleNewsItems,
                                  merged |-> merged], ok)
       /\ writes' = Append(writes, [path |-> DEBUG, ok |-> ok])
       /\ pc' = AfterDebugWrite(ok)
  /\ UNCHANGED <<now, fetched, promise, results, youTubeItems, bandcampItems,
                 googleNewsItems, mergeInput, merged, outputFile, exitCode,
                 defaulted>>

\* lines 330-337: the catch of main
Catch ==
  /\ pc = "catch"
  /\ \E ok \in BOOLEAN :
       /\ outputFile' = writeJson(outputFile, <<>>, ok)
       /\ writes' = Append(writes, [path |-> OUTPUT, ok |-> ok])
  /\ exitCode' = 1
  /\ pc' = "done"
  /\ UNCHANGED <<now, fetched, promise, results, youTubeItems, bandcampItems,
                 googleNewsItems, mergeInput, merged, debugFile, defaulted>>

Next ==
  \/ GetYouTube
  \/ GetBandcamp
  \/ GetGoogleNews
  \/ MainMerge
  \/ WriteOutput
  \/ WriteDebug
  \/ Catch

Spec == Init /\ [][Next]_vars

(***************************************************************************)
(* Vocabulary of the properties.                                           *)
(***************************************************************************)
\* the first writeJson call of the run, the one of data/news.json, succeeded
OutputWritten == Len(writes) >= 1 /\ writes[1].ok

\* the record list in data/news.json
Out == Val(outputFile)

\* what the task of src contributes: its value when its fetch succeeded
Contribution(src) ==
  IF fetched[src] = "ok" THEN promise[src].value ELSE <<>>

\* the values of the fulfilled tasks, by position
SettledValues ==
  [src \in Sources |->
     IF promise[src].status = "fulfilled" THEN promise[src].value ELSE <<>>]

\* the records of seq whose key is k
WithKey(seq, k) == { i \in 1..Len(seq) : Key(seq[i]) = k }

\* two candidates of the merge input with the same key
DuplicatePairs ==
  { p \in (1..Len(mergeInput)) \X (1..Len(mergeInput)) :
      p[1] < p[2] /\ Key(mergeInput[p[1]]) = Key(mergeInput[p[2]]) }

DistinctKeys == { Key(mergeInput[i]) : i \in 1..Len(mergeInput) }

\* the rules of the relevance filter, stated on a Google News record
PassesRules(c) ==
  LET t == toLowerCase[c.title \o " " \o c._summary] IN
    /\ testWord(t, "osiah")
    /\ ~testWord(t, "josiah")
    /\ \A w \in BLOCK_TERMS : ~includes(t, w)
    /\ \/ \E w \in CONTEXT_TERMS : includes(t, w)
       \/ TrustedHost(c.url)

\* the rules evaluated once on every card the feeds of the model can give
RuleTable ==
  [c \in { GoogleNewsCard(b, t) : b \in GoogleNewsBlocks, t \in Clock } |->
     PassesRules(c)]

FromGoogleNews(r) == "_summary" \in DOMAIN r

(***************************************************************************)
(* C1.  Isolation: a source task whose fetch threw or returned a           *)
(* non-success status contributes no candidate and leaves the candidates   *)
(* of the other tasks as they are: the merge input is the concatenation of *)
(* the values of the tasks whose fetch succeeded, and the run goes on to   *)
(* write the output.                                                       *)
(***************************************************************************)
Isolation ==
  /\ pc # "await_sources" =>
       mergeInput = Contribution(YouTube) \o Contribution(Bandcamp)
                      \o Contribution(GoogleNews)
  /\ pc = "done" => Len(writes) >= 1 /\ writes[1].path = OUTPUT

IsolationWitness ==
  /\ pc = "done"
  /\ fetched[YouTube] = "http_error"
  /\ fetched[Bandcamp] = "ok"
  /\ fetched[GoogleNews] = "network_error"
  /\ Len(mergeInput) = MaxUnits

(***************************************************************************)
(* C2.  Dedup invariant as claimed: for every pair of candidates of the    *)
(* merge input with equal keys, exactly one record with that key is in the *)
(* output written.                                                         *)
(***************************************************************************)
DedupExactlyOne ==
  OutputWritten =>
    \A p \in DuplicatePairs :
      Cardinality(WithKey(Out, Key(mergeInput[p[1]]))) = 1

(***************************************************************************)
(* C2 amended.  For every pair of candidates with equal keys at most one   *)
(* record with that key is in the output written, and exactly one when the *)
(* merge input has at most 40 distinct keys (main keeps the first 40       *)
(* records after the sort).                                                *)
(***************************************************************************)
DedupAtMostOne ==
  OutputWritten =>
    \A p \in DuplicatePairs :
      LET n == Cardinality(WithKey(Out, Key(mergeInput[p[1]]))) IN
        /\ n <= 1
        /\ Cardinality(DistinctKeys) <= KeepLimit => n = 1

DedupWitness ==
  /\ OutputWritten
  /\ \E p \in DuplicatePairs :
       /\ mergeInput[p[1]] # mergeInput[p[2]]
       /\ Cardinality(WithKey(Out, Key(mergeInput[p[1]]))) = 1

UnknownAfterKnown ==
  OutputWritten =>
    \A i, j \in 1..Len(Out) :
      i < j => ~(Out[i] \in defaulted /\ Out[j] \notin defaulted)

(***************************************************************************)
(* C5.  Relevance invariant: every Google News record in the output has    *)
(* title-plus-excerpt text that contains "osiah" as a whole word, does not *)
(* contain "josiah" as a whole word, contains no block term, and contains  *)
(* a context term or has a trusted host.                                   *)
(***************************************************************************)
RelevanceInvariant ==
  OutputWritten =>
    \A k \in 1..Len(Out) :
      FromGoogleNews(Out[k]) =>
        Out[k] \in DOMAIN RuleTable /\ RuleTable[Out[k]]

RelevanceWitness ==
  /\ OutputWritten
  /\ \E k \in 1..Len(Out) :
       /\ FromGoogleNews(Out[k])
       /\ Out[k].title = "OSIAH"
       /\ Out[k]._summary = ""
  /\ \E k \in 1..Len(Out) :
       FromGoogleNews(Out[k]) /\ Out[k].source = "Metal Injection"

(***************************************************************************)
(* C6.  Exit status: when main is done the exit code is non-zero exactly   *)
(* when the write of data/news.json failed; failing sources never make it  *)
(* non-zero.                                                               *)
(***************************************************************************)
ExitStatus ==
  pc = "done" => (exitCode # 0 <=> ~OutputWritten)

ExitStatusWitness ==
  /\ pc = "done"
  /\ \A src \in Sources : promise[src].status = "rejected"
  /\ OutputWritten
  /\ exitCode = 0

(***************************************************************************)
(* C7.  Every record in the output has a non-empty title and a non-empty   *)
(* url.                                                                    *)
(***************************************************************************)
TitleAndUrlNonEmpty ==
  OutputWritten =>
    \A k \in 1..Len(Out) : Out[k].title # "" /\ Out[k].url # ""

(***************************************************************************)
(* C8.  A failed write of the debug artifact does not fail the run: when   *)
(* the output write succeeded and the debug write failed, data/news.json   *)
(* holds the merged records and the exit code is zero.                     *)
(***************************************************************************)
DebugFailureHarmless ==
  (/\ pc = "done"
   /\ Len(writes) >= 2
   /\ writes[1] = [path |-> OUTPUT, ok |-> TRUE]
   /\ writes[2] = [path |-> DEBUG, ok |-> FALSE])
    => /\ outputFile = {merged}
       /\ exitCode = 0
       /\ Len(merged) = (IF Cardinality(DistinctKeys) < KeepLimit
                         THEN Cardinality(DistinctKeys) ELSE KeepLimit)

DebugFailureWitness ==
  /\ pc = "done"
  /\ Len(writes) = 2
  /\ writes[1].ok
  /\ ~writes[2].ok
  /\ debugFile = {}
  /\ Len(merged) >= 2

(***************************************************************************)
(* C9.  First-seen-wins: the merge input is the YouTube items, then the    *)
(* Bandcamp items, then the Google News items, and every record kept is    *)
(* the earliest candidate of its key in the merge input.                   *)
(***************************************************************************)
FirstSeenWins ==
  pc # "await_sources" =>
    /\ mergeInput = youTubeItems \o bandcampItems \o googleNewsItems
    /\ youTubeItems = SettledValues[YouTube]
    /\ bandcampItems = SettledValues[Bandcamp]
    /\ googleNewsItems = SettledValues[GoogleNews]
    /\ \A k \in 1..Len(merged) :
         \E i \in WithKey(mergeInput, Key(merged[k])) :
           /\ merged[k] = mergeInput[i]
           /\ \A j \in WithKey(mergeInput, Key(merged[k])) : i <= j

FirstSeenWitness ==
  /\ pc # "await_sources"
  /\ \E p \in DuplicatePairs :
       /\ p[1] <= Len(youTubeItems)
       /\ p[2] > Len(youTubeItems) + Len(bandcampItems)
       /\ mergeInput[p[1]] # mergeInput[p[2]]
       /\ \E k \in 1..Len(merged) : merged[k] = mergeInput[p[1]]

(***************************************************************************)
(* C10.  The merge and the output write happen only after all three tasks  *)
(* have settled, and what is written is determined by the outcomes of the  *)
(* tasks taken by position (YouTube, Bandcamp, Google News), whatever the  *)
(* order they settled in.                                                  *)
(***************************************************************************)
OrderIndependence ==
  /\ pc # "await_sources" => \A src \in Sources : promise[src].status # "pending"
  /\ writes # <<>> => \A src \in Sources : promise[src].status # "pending"
  /\ OutputWritten =>
       outputFile = {Rank(SettledValues[YouTube] \o SettledValues[Bandcamp]
                            \o SettledValues[GoogleNews])}

OrderIndependenceWitness ==
  /\ OutputWritten
  /\ promise[YouTube].status = "fulfilled"
  /\ promise[Bandcamp].status = "rejected"
  /\ promise[GoogleNews].status = "fulfilled"
  /\ Len(promise[YouTube].value) = 1
  /\ Len(promise[GoogleNews].value) = MaxUnits
  /\ Len(Out) = MaxUnits + 1
====
